---- MODULE Spec2Model ----
(***************************************************************************)
(* Model of .github/scripts/check_structure_trafic.py: one run of main().  *)
(*                                                                         *)
(* The run is a record (the locals of main, its position, and what it has  *)
(* written to stdout / stderr).  Every step of main is an operator from a  *)
(* run record, the parsed arguments and what the environment hands to the  *)
(* step (schema file state, directory listing, content of the file read)   *)
(* to the next run record.  `run` is the run with the command line given;  *)
(* `twin` is the run of the same code on the same environment with the     *)
(* --quiet flag flipped, advanced in lockstep, so that statements that     *)
(* compare a quiet and a non-quiet run are state predicates.               *)
(*                                                                         *)
(* The jsonschema library is an external collaborator: what                *)
(* Draft7Validator.iter_errors yields for an instance (or whether it       *)
(* raises, which it can do only on a schema that is not well-formed) is an *)
(* attribute of the content the environment supplies for a file.           *)
(*                                                                         *)
(* Spec explores whole runs of main; SpecValidate explores a call of       *)
(* validate_instance on its own, over a richer set of violations.          *)
(***************************************************************************)
EXTENDS Integers, Sequences, FiniteSets, TLC

\* ---- bounds ----
MaxFiles == 2          \* trafic.json files that can exist under the searched directory
MaxErrs == 2           \* violations iter_errors yields for one instance

\* ---- paths inside a document ----
\* A path segment is a field name (str) or an array index (int).
Key(name) == [t |-> "str", s |-> name, n |-> 0]
Idx(k) == [t |-> "int", s |-> "", n |-> k]

\* Code point of the (one-character) field names used in the documents.
Ord(name) == CASE name = "a" -> 97 [] name = "b" -> 98 [] OTHER -> 0

\* The document instances are drawn from,
\*   {"a": [x0, .., x10], "b": {"a": y}},
\* given by the locations at which a schema can report a violation: the root,
\* the array, two of its elements, and a field of the nested object.
Locations ==
    { <<>>, <<Key("a")>>, <<Key("a"), Idx(2)>>, <<Key("a"), Idx(10)>>,
      <<Key("b"), Key("a")>> }

\* The locations used when whole runs of main are explored.
RunLocations == { <<>>, <<Key("a"), Idx(2)>>, <<Key("b"), Key("a")>> }

Messages == {"is a required property", "is not of type"}

\* A jsonschema ValidationError as yielded by iter_errors: relative_path and
\* parent (None for every error iter_errors itself yields; only the errors in
\* err.context have a parent).
ValidationError(p, m) == [path |-> p, parent |-> <<>>, has_parent |-> FALSE, message |-> m]

\* ValidationError.absolute_path: relative_path when parent is None, else the
\* parent's absolute path followed by relative_path.
absolute_path(err) == IF err.has_parent THEN err.parent \o err.path ELSE err.path

\* ---- comparison of deques (the sort key e.path) ----
Min(a, b) == IF a < b THEN a ELSE b

\* first position where the two deques differ, 0 if one is a prefix of the other
FirstDiff(p, q) ==
    LET D == {k \in 1..Min(Len(p), Len(q)) : p[k] # q[k]}
    IN IF D = {} THEN 0 ELSE CHOOSE k \in D : \A j \in D : k <= j

\* x < y on two segments of the same type
SegLess(x, y) == IF x.t = "int" THEN x.n < y.n ELSE Ord(x.s) < Ord(y.s)

\* p < q raises TypeError: the first differing elements are a str and an int
CompareRaises(p, q) ==
    LET k == FirstDiff(p, q) IN k # 0 /\ p[k].t # q[k].t

\* deque.__lt__: lexicographic, a proper prefix is smaller
DequeLess(p, q) ==
    LET k == FirstDiff(p, q)
    IN IF k = 0 THEN Len(p) < Len(q) ELSE SegLess(p[k], q[k])

\* ---- sorted(validator.iter_errors(instance), key=lambda e: e.path) ----
RECURSIVE InsertByPath(_, _)
\* stable insertion: e goes before the first element whose key is greater
InsertByPath(e, s) ==
    IF s = <<>> THEN <<e>>
    ELSE IF DequeLess(e.path, Head(s).path) THEN <<e>> \o s
    ELSE <<Head(s)>> \o InsertByPath(e, Tail(s))

\* the list as iter_errors yielded it, the sort left out
UnsortedByPath(s) == s

RECURSIVE SortedByPath(_)
SortedByPath(s) ==
    IF s = <<>> THEN <<>>
    ELSE InsertByPath(s[Len(s)], SortedByPath(SubSeq(s, 1, Len(s) - 1)))

\* sorted() raises when two keys it compares are not comparable
SortRaises(s) == \E j, k \in 1..Len(s) : CompareRaises(s[j].path, s[k].path)

\* ---- rendering ----
Str(seg) == IF seg.t = "int" THEN ToString(seg.n) ELSE seg.s

RECURSIVE JoinSegments(_)
\* "".join(f"/{p}" for p in path)
JoinSegments(p) ==
    IF p = <<>> THEN "" ELSE ("/" \o Str(Head(p))) \o JoinSegments(Tail(p))

\* location = "".join(...) or "/"
Location(p) == IF JoinSegments(p) = "" THEN "/" ELSE JoinSegments(p)

\* f"{instance_path}: {location} -> {err.message}"
ErrorLine(instance_path, err) ==
    [file |-> instance_path, kind |-> "schema",
     location |-> Location(absolute_path(err)), message |-> err.message]

\* f"{f}: JSON parse error: {exc}"
ParseErrorLine(f) ==
    [file |-> f, kind |-> "JSON parse error", location |-> "", message |-> "exc"]

\* ---- what the environment supplies ----
SeqsUpTo(S, n) == UNION {[1..k -> S] : k \in 0..n}

\* A file path is identified by its rank in the ordering of Path objects.
FileIds == 1..MaxFiles

\* What rglob can return: the matching paths, each once, in directory order.
Listings == {s \in SeqsUpTo(FileIds, MaxFiles) : \A j, k \in 1..Len(s) : j # k => s[j] # s[k]}

SchemaFiles == {"missing", "unparseable", "malformed", "ok"}

\* Content of one trafic.json: text json.load rejects, or an instance together
\* with what iter_errors does on it under the loaded schema.
Unparseable == [kind |-> "unparseable", yielded |-> <<>>, raises |-> FALSE]
Instance(ys) == [kind |-> "json", yielded |-> ys, raises |-> FALSE]
Breaking == [kind |-> "json", yielded |-> <<>>, raises |-> TRUE]
Instances ==
    {Instance(ys) : ys \in SeqsUpTo({ValidationError(p, "is not of type") : p \in RunLocations}, MaxErrs)}
\* the instances validate_instance is called on when it is explored on its own
CallInstances ==
    {Instance(ys) : ys \in SeqsUpTo({ValidationError(p, m) : p \in Locations, m \in Messages}, MaxErrs)}
NoContent == [kind |-> "none", yielded |-> <<>>, raises |-> FALSE]

\* Draft7Validator(schema, ...).iter_errors(instance)
iter_errors(schema, instance) == instance.yielded

\* ---- the functions of the script ----
\* list(dir.rglob("trafic.json")): nothing for a directory that does not exist
rglob(dir) == IF dir.exists THEN dir.listing ELSE <<>>

find_trafic_files(dir) == IF ~dir.exists THEN <<>> ELSE rglob(dir)

RECURSIVE InsertFile(_, _)
InsertFile(f, s) ==
    IF s = <<>> THEN <<f>>
    ELSE IF f < Head(s) THEN <<f>> \o s
    ELSE <<Head(s)>> \o InsertFile(f, Tail(s))

\* the files in directory order, the sort left out
unsorted_files(s) == s

RECURSIVE sorted_files(_)
\* sorted(files)
sorted_files(s) ==
    IF s = <<>> THEN <<>>
    ELSE InsertFile(s[Len(s)], sorted_files(SubSeq(s, 1, Len(s) - 1)))

\* the list of error objects validate_instance iterates over
sorted_errors(schema, instance) == SortedByPath(iter_errors(schema, instance))

\* validate_instance raises: iter_errors raises on a schema that is not
\* well-formed, or sorted() raises TypeError
validate_raises(schema, instance) ==
    instance.raises \/ SortRaises(iter_errors(schema, instance))

validate_instance(schema, instance, instance_path) ==
    LET errs == sorted_errors(schema, instance)
    IN [k \in 1..Len(errs) |-> ErrorLine(instance_path, errs[k])]

\* ---- one run of main ----
NoExit == 0 - 1

NewRun ==
    [pc |-> "init", schema |-> "None", files |-> <<>>, queue |-> <<>>, i |-> 0,
     total |-> 0, invalid |-> 0, all_errors |-> <<>>,
     errors |-> <<>>, validated |-> {},
     stdout |-> <<>>, stderr |-> <<>>, exit_code |-> NoExit]

OkLine(f) == [kind |-> "OK", file |-> f]
NoFilesLine(a) == [kind |-> "No trafic.json files found", under |-> IF a.logo_dir THEN "logo_dir" ELSE "root/logo"]
HeaderLine == [kind |-> "Validation errors:"]
ItemLine(e) == [kind |-> "-", text |-> e]
SummaryLine(total, invalid) ==
    [kind |-> "Checked", total |-> total, valid |-> total - invalid, invalid |-> invalid]

Return(r, code) == [r EXCEPT !.exit_code = code, !.pc = "returned"]

\* load_schema without the try/except around load_json: a schema that does not
\* parse is carried on as if loaded
load_schema_unguarded(r, a, sf) ==
    IF sf = "missing"
    THEN Return([r EXCEPT !.stderr = Append(@, [kind |-> "ERROR: schema file not found"])], 2)
    ELSE [r EXCEPT !.schema = sf, !.pc = "discover"]

\* lines 63-71
load_schema(r, a, sf) ==
    IF sf = "missing"
    THEN Return([r EXCEPT !.stderr = Append(@, [kind |-> "ERROR: schema file not found"])], 2)
    ELSE IF sf = "unparseable"
    THEN Return([r EXCEPT !.stderr = Append(@, [kind |-> "ERROR: failed to load schema"])], 2)
    ELSE [r EXCEPT !.schema = sf, !.pc = "discover"]

\* discover treating an empty result as a failure
discover_empty_fails(r, a, dir) ==
    LET files == IF ~a.logo_dir THEN find_trafic_files(dir) ELSE rglob(dir)
    IN IF files = <<>>
       THEN Return([r EXCEPT !.files = files, !.stdout = Append(@, NoFilesLine(a))], 1)
       ELSE [r EXCEPT !.files = files, !.queue = sorted_files(files), !.pc = "loop"]

\* lines 73-80
discover(r, a, dir) ==
    LET files == IF ~a.logo_dir THEN find_trafic_files(dir) ELSE rglob(dir)
    IN IF files = <<>>
       THEN Return([r EXCEPT !.files = files, !.stdout = Append(@, NoFilesLine(a))], 0)
       ELSE [r EXCEPT !.files = files, !.queue = sorted_files(files), !.pc = "loop"]

\* where the loop goes after the file at position i + 1
AfterFile(r) == IF r.i + 1 = Len(r.queue) THEN "report" ELSE "loop"

\* loop body with invalid += len(errors)
loop_body_counts_errors(r, a, content) ==
    LET f == r.queue[r.i + 1]
        r1 == [r EXCEPT !.total = @ + 1]
    IN IF content.kind = "unparseable"
       THEN [r1 EXCEPT !.invalid = @ + 1,
                       !.all_errors = Append(@, ParseErrorLine(f)),
                       !.i = @ + 1, !.pc = AfterFile(r)]
       ELSE IF validate_raises(r.schema, content)
       THEN [r1 EXCEPT !.validated = @ \cup {f},
                       !.stderr = Append(@, [kind |-> "Traceback"]),
                       !.exit_code = 1, !.pc = "raised"]
       ELSE LET errors == validate_instance(r.schema, content, f)
                r2 == [r1 EXCEPT !.validated = @ \cup {f},
                                 !.errors = errors,
                                 !.i = @ + 1, !.pc = AfterFile(r)]
            IN IF errors # <<>>
               THEN [r2 EXCEPT !.invalid = @ + Len(errors), !.all_errors = @ \o errors]
               ELSE IF ~a.quiet
               THEN [r2 EXCEPT !.stdout = Append(@, OkLine(f))]
               ELSE r2

\* loop body that skips a file it cannot parse without recording it
loop_body_skips_unparseable(r, a, content) ==
    LET f == r.queue[r.i + 1]
        r1 == [r EXCEPT !.total = @ + 1]
    IN IF content.kind = "unparseable"
       THEN [r1 EXCEPT !.i = @ + 1, !.pc = AfterFile(r)]
       ELSE IF validate_raises(r.schema, content)
       THEN [r1 EXCEPT !.validated = @ \cup {f},
                       !.stderr = Append(@, [kind |-> "Traceback"]),
                       !.exit_code = 1, !.pc = "raised"]
       ELSE LET errors == validate_instance(r.schema, content, f)
                r2 == [r1 EXCEPT !.validated = @ \cup {f},
                                 !.errors = errors,
                                 !.i = @ + 1, !.pc = AfterFile(r)]
            IN IF errors # <<>>
               THEN [r2 EXCEPT !.invalid = @ + 1, !.all_errors = @ \o errors]
               ELSE IF ~a.quiet
               THEN [r2 EXCEPT !.stdout = Append(@, OkLine(f))]
               ELSE r2

\* loop body with the error bookkeeping under the quiet test as well
loop_body_quiet_drops_errors(r, a, content) ==
    LET f == r.queue[r.i + 1]
        r1 == [r EXCEPT !.total = @ + 1]
    IN IF content.kind = "unparseable"
       THEN [r1 EXCEPT !.invalid = @ + 1,
                       !.all_errors = Append(@, ParseErrorLine(f)),
                       !.i = @ + 1, !.pc = AfterFile(r)]
       ELSE IF validate_raises(r.schema, content)
       THEN [r1 EXCEPT !.validated = @ \cup {f},
                       !.stderr = Append(@, [kind |-> "Traceback"]),
                       !.exit_code = 1, !.pc = "raised"]
       ELSE LET errors == validate_instance(r.schema, content, f)
                r2 == [r1 EXCEPT !.validated = @ \cup {f},
                                 !.errors = errors,
                                 !.i = @ + 1, !.pc = AfterFile(r)]
            IN IF errors # <<>> /\ ~a.quiet
               THEN [r2 EXCEPT !.invalid = @ + 1, !.all_errors = @ \o errors]
               ELSE IF ~a.quiet
               THEN [r2 EXCEPT !.stdout = Append(@, OkLine(f))]
               ELSE r2

\* lines 82-97, one iteration
loop_body(r, a, content) ==
    LET f == r.queue[r.i + 1]
        r1 == [r EXCEPT !.total = @ + 1]
    IN IF content.kind = "unparseable"
       THEN [r1 EXCEPT !.invalid = @ + 1,
                       !.all_errors = Append(@, ParseErrorLine(f)),
                       !.i = @ + 1, !.pc = AfterFile(r)]
       ELSE IF validate_raises(r.schema, content)
       THEN [r1 EXCEPT !.validated = @ \cup {f},
                       !.stderr = Append(@, [kind |-> "Traceback"]),
                       !.exit_code = 1, !.pc = "raised"]
       ELSE LET errors == validate_instance(r.schema, content, f)
                r2 == [r1 EXCEPT !.validated = @ \cup {f},
                                 !.errors = errors,
                                 !.i = @ + 1, !.pc = AfterFile(r)]
            IN IF errors # <<>>
               THEN [r2 EXCEPT !.invalid = @ + 1, !.all_errors = @ \o errors]
               ELSE IF ~a.quiet
               THEN [r2 EXCEPT !.stdout = Append(@, OkLine(f))]
               ELSE r2

\* report always returning 0
report_exit_zero(r, a) ==
    LET listing == IF r.all_errors # <<>>
                   THEN <<HeaderLine>> \o [k \in 1..Len(r.all_errors) |-> ItemLine(r.all_errors[k])]
                   ELSE <<>>
        out == (r.stdout \o listing) \o <<SummaryLine(r.total, r.invalid)>>
    IN Return([r EXCEPT !.stdout = out], 0)

\* report printing the summary inside the `if all_errors:` block
report_summary_with_errors_only(r, a) ==
    LET listing == IF r.all_errors # <<>>
                   THEN (<<HeaderLine>> \o [k \in 1..Len(r.all_errors) |-> ItemLine(r.all_errors[k])])
                        \o <<SummaryLine(r.total, r.invalid)>>
                   ELSE <<>>
    IN Return([r EXCEPT !.stdout = r.stdout \o listing], IF r.invalid # 0 THEN 1 ELSE 0)

\* lines 99-105
report(r, a) ==
    LET listing == IF r.all_errors # <<>>
                   THEN <<HeaderLine>> \o [k \in 1..Len(r.all_errors) |-> ItemLine(r.all_errors[k])]
                   ELSE <<>>
        out == (r.stdout \o listing) \o <<SummaryLine(r.total, r.invalid)>>
    IN Return([r EXCEPT !.stdout = out], IF r.invalid # 0 THEN 1 ELSE 0)

\* main, one step from wherever the run is
main(r, a, sf, dir, content) ==
    CASE r.pc = "init" -> load_schema(r, a, sf)
      [] r.pc = "discover" -> discover(r, a, dir)
      [] r.pc = "loop" -> loop_body(r, a, content)
      [] r.pc = "report" -> report(r, a)
      [] OTHER -> r

\* ---- state ----
\* args, schema_file, disk: the command line and the file system the run sees.
\* reads: the trafic.json files opened so far, in order, each with what was in
\* it (did it parse, how many violations the schema finds, did validation raise).
\* call: a call of validate_instance on its own (its instance, the sorted list
\* it iterates over, and what it returned); not used by a run of main.
VARIABLES args, schema_file, disk, run, twin, reads, call
vars == <<args, schema_file, disk, run, twin, reads, call>>

NoCall == [state |-> "none", instance |-> NoContent, sorted_errs |-> <<>>, errors |-> <<>>]

Flip(a) == [a EXCEPT !.quiet = ~@]

Init ==
    /\ args \in [quiet : BOOLEAN, logo_dir : BOOLEAN]
    /\ schema_file \in SchemaFiles
    /\ disk \in {d \in [exists : BOOLEAN, listing : Listings] : ~d.exists => d.listing = <<>>}
    /\ run = NewRun
    /\ twin = NewRun
    /\ reads = <<>>
    /\ call = NoCall

Opened(r, content) ==
    [file |-> r.queue[r.i + 1], parsed |-> content.kind = "json",
     violations |-> Len(content.yielded), raised |-> content.raises]

Step(content) ==
    /\ run' = main(run, args, schema_file, disk, content)
    /\ twin' = main(twin, Flip(args), schema_file, disk, content)
    /\ reads' = IF run.pc = "loop" THEN Append(reads, Opened(run, content)) ELSE reads
    /\ UNCHANGED <<args, schema_file, disk, call>>

SchemaMissing == run.pc = "init" /\ schema_file = "missing" /\ Step(NoContent)

SchemaLoadFails == run.pc = "init" /\ schema_file = "unparseable" /\ Step(NoContent)

SchemaLoaded == run.pc = "init" /\ schema_file \in {"malformed", "ok"} /\ Step(NoContent)

NoFilesFound == run.pc = "discover" /\ disk.listing = <<>> /\ Step(NoContent)

FilesFound == run.pc = "discover" /\ disk.listing # <<>> /\ Step(NoContent)

FileUnparseable == run.pc = "loop" /\ Step(Unparseable)

FileValidated ==
    /\ run.pc = "loop"
    /\ \E c \in Instances : Step(c)

ValidationRaises ==
    /\ run.pc = "loop"
    /\ schema_file = "malformed"
    /\ Step(Breaking)

Report == run.pc = "report" /\ Step(NoContent)

Next ==
    \/ SchemaMissing
    \/ SchemaLoadFails
    \/ SchemaLoaded
    \/ NoFilesFound
    \/ FilesFound
    \/ FileUnparseable
    \/ FileValidated
    \/ ValidationRaises
    \/ Report

Spec == Init /\ [][Next]_vars

\* ---- validate_instance on its own ----
InitValidate ==
    /\ args = [quiet |-> FALSE, logo_dir |-> FALSE]
    /\ schema_file = "ok"
    /\ disk = [exists |-> FALSE, listing |-> <<>>]
    /\ run = NewRun
    /\ twin = NewRun
    /\ reads = <<>>
    /\ call \in {[NoCall EXCEPT !.state = "called", !.instance = c] : c \in CallInstances}

\* lines 38-45
ValidateInstance ==
    /\ call.state = "called"
    /\ call' = IF validate_raises(schema_file, call.instance)
               THEN [call EXCEPT !.state = "raised"]
               ELSE [call EXCEPT !.state = "returned",
                                 !.sorted_errs = sorted_errors(schema_file, call.instance),
                                 !.errors = validate_instance(schema_file, call.instance, 1)]
    /\ UNCHANGED <<args, schema_file, disk, run, twin, reads>>

NextValidate == ValidateInstance

SpecValidate == InitValidate /\ [][NextValidate]_vars

\* ---- vocabulary of the properties ----
Range(q) == {q[k] : k \in 1..Len(q)}
Last(q) == q[Len(q)]
Terminated(r) == r.pc \in {"returned", "raised"}
FatalSchema == schema_file \in {"missing", "unparseable"}

\* what the environment knows about the files opened, independently of the counters
InvalidRead(rd) == ~rd.parsed \/ (~rd.raised /\ rd.violations > 0)
ValidRead(rd) == rd.parsed /\ ~rd.raised /\ rd.violations = 0
InvalidFiles == {rd.file : rd \in {x \in Range(reads) : InvalidRead(x)}}
Discovered == IF disk.exists THEN Range(disk.listing) ELSE {}

OkLines(r) == SelectSeq(r.stdout, LAMBDA l : l.kind = "OK")
OtherLines(r) == SelectSeq(r.stdout, LAMBDA l : l.kind # "OK")
IsSummary(l) == l.kind = "Checked"

C3_InvalidOncePerFile ==
    /\ run.invalid = Cardinality(InvalidFiles)
    /\ run.invalid = Cardinality({e.file : e \in Range(run.all_errors)})
    /\ run.invalid <= Len(run.all_errors)

C3_Witness ==
    /\ run.pc = "report"
    /\ run.total = 2 /\ run.invalid = 1 /\ Len(run.all_errors) = 2
    /\ \E rd \in Range(reads) : ValidRead(rd)

\* C4: once the schema is loaded and a file is discovered the batch is never
\* aborted: the run ends by returning from main, with every discovered file
\* opened and total equal to the number of discovered files.
C4_BatchNeverAborted ==
    (Terminated(run) /\ run.files # <<>>) =>
        /\ run.pc = "returned"
        /\ Len(reads) = Len(run.files)
        /\ run.total = Len(run.files)

\* C5: the step that opens an unparseable file appends exactly one synthetic
\* 'JSON parse error' entry for it, counts it in total and in invalid, does not
\* pass it to validation, prints nothing, and leaves the loop at the next file
\* (or at the report when it was the last one).
C5_ParseFailureRecorded ==
    [][ (Len(reads') = Len(reads) + 1 /\ ~Last(reads').parsed) =>
          LET f == Last(reads').file IN
            /\ run'.all_errors = Append(run.all_errors, ParseErrorLine(f))
            /\ run'.total = run.total + 1
            /\ run'.invalid = run.invalid + 1
            /\ f \notin run'.validated
            /\ run'.stdout = run.stdout
            /\ run'.i = run.i + 1
            /\ run'.pc = IF Len(reads') < Len(run.files) THEN "loop" ELSE "report"
      ]_vars

C5_Witness ==
    /\ Len(reads) = 2 /\ ~reads[1].parsed /\ reads[2].parsed
    /\ run.pc = "returned" /\ run.total = 2
    /\ run.all_errors[1] = ParseErrorLine(reads[1].file)

C7_NoFilesIsSuccess ==
    (~FatalSchema /\ Discovered = {} /\ run.pc \notin {"init", "discover"}) =>
        /\ run.pc = "returned" /\ run.exit_code = 0
        /\ run.files = <<>>
        /\ run.stdout = <<NoFilesLine(args)>>
        /\ run.stderr = <<>>
        /\ reads = <<>> /\ run.total = 0

C7_Witness ==
    /\ ~FatalSchema /\ ~disk.exists /\ args.logo_dir
    /\ run.pc = "returned"

\* occurrences of x in the sequence q
Count(q, x) == Cardinality({k \in 1..Len(q) : q[k] = x})

\* C8: a call of validate_instance returns (it does not raise) one line per
\* violation iter_errors yielded, all of them, in ascending order of the
\* location path, violations at the same location in the order they were
\* yielded, and each line shows the rendering of that path and the message.
C8_AllViolationsSorted ==
    (call.state # "called") =>
        LET yielded == iter_errors(schema_file, call.instance)
            errs == call.sorted_errs
        IN /\ call.state = "returned"
           /\ Len(call.errors) = Len(yielded)
           /\ \A e \in Range(yielded) : Count(errs, e) = Count(yielded, e)
           /\ \A j, k \in 1..Len(errs) :
                 j < k => ~DequeLess(absolute_path(errs[k]), absolute_path(errs[j]))
           /\ \A p \in Locations :
                 SelectSeq(errs, LAMBDA e : e.path = p) = SelectSeq(yielded, LAMBDA e : e.path = p)
           /\ \A k \in 1..Len(call.errors) :
                 /\ call.errors[k].location = Location(absolute_path(errs[k]))
                 /\ call.errors[k].message = errs[k].message

\* yielded out of order, at an array index above 9 and below it: the order is
\* that of the path segments, index 2 before index 10
C8_Witness ==
    /\ call.state = "returned"
    /\ Len(call.instance.yielded) = 2
    /\ call.instance.yielded[1].path = <<Key("a"), Idx(10)>>
    /\ call.instance.yielded[2].path = <<Key("a"), Idx(2)>>
    /\ call.errors[1].location = "/a/2" /\ call.errors[2].location = "/a/10"

====
